---- MODULE Spec2Model ----
(***************************************************************************)
(* Model of the graph-analysis engine GraphAnalyzer (Tarjan SCC detection, *)
(* elementary-cycle enumeration, tiny-cycle detection, metrics).           *)
(* Node ids are modelled as positive integers: they stand for            *)
(* distinct one-character strings, so that the string comparison of        *)
(* normalizeCycle is the integer order.                                    *)
(***************************************************************************)
EXTENDS Integers, Sequences, FiniteSets, TLC

(* ------------------------------ bounds -------------------------------- *)
\* SCC detection: every edge list over the ids 1..n of up to MaxSize - n edges,
\* for every n in 1..MaxSize
MaxSize == 6
\* the loop-free simple digraphs of up to MaxSimpleEdges edges on MaxSimpleNodes nodes
\* whose edges join ids that differ by 1 or 2
MaxSimpleNodes == 4
MaxSimpleEdges == 5
\* cycle search: every edge list over the ids 1..n of up to MaxCycleSize - n
\* edges, with every componentNodes list of up to MaxComp of these ids
MaxCycleSize == 5
MaxComp == 2
\* the complete graphs on 2..MaxDense nodes
MaxDense == 6
\* interleaved calls: two graphs on the nodes 1..MaxCallIds of up to MaxCallEdges edges
MaxCallIds == 2
MaxCallEdges == 2
\* the routes: up to MaxRequests requests, in any interleaving of their steps
MaxRequests == 2
\* calls one after another: every edge list over the ids 1..n of up to
\* MaxSeqSize - n edges
MaxSeqSize == 4
\* the two detectors: the loop-free simple digraphs of up to MaxArrowEdges edges
\* on the ids '1', '2', '3' and '2->3'
MaxArrowEdges == 5
\* metrics: every edge list over n ids of up to MaxMetricsSize - n edges
MaxMetricsSize == 6
\* all four operations: every edge list over n ids of up to MaxEngineSize - n
\* edges, with every componentNodes list of up to MaxEngineComp of these ids
MaxEngineSize == 4
MaxEngineComp == 2

(* ------------------------- generic helpers ---------------------------- *)
SeqsUpTo(S, n) == UNION {[1..k -> S] : k \in 0..n}

Range(s) == {s[i] : i \in 1..Len(s)}

\* Map.has / Map.get / Map.set on a map kept as a function on its key set
Has(m, k) == k \in DOMAIN m

Put(m, k, v) == [x \in (DOMAIN m) \cup {k} |-> IF x = k THEN v ELSE m[x]]

EmptyMap == [x \in {} |-> 0]

Min2(a, b) == IF a < b THEN a ELSE b

(* ------------------------------ state --------------------------------- *)
VARIABLES
  graphData,       \* the GraphData argument: [nodes: Seq(id), edges: Seq([source, target])]
  index,           \* GraphAnalyzer.index
  stack,           \* GraphAnalyzer.stack
  indices,         \* GraphAnalyzer.indices
  lowlinks,        \* GraphAnalyzer.lowlinks
  onStack,         \* GraphAnalyzer.onStack
  sccs,            \* GraphAnalyzer.sccs
  componentNodes,  \* the componentNodes argument of findElementaryCycles / detectTinyCycles
  pc,              \* "new", or the engine operation that has returned
  sccRet,          \* return value of findStronglyConnectedComponents
  cycles,          \* the local array cycles of findElementaryCycles when the search ends
  cyclesRet,       \* return value of findElementaryCycles
  tinyRet,         \* return value of detectTinyCycles
  metricsRet,      \* return value of calculateMetrics
  calls,           \* the invocations of findStronglyConnectedComponents in progress on
                   \* the analyzer: for each its argument, its position and its result
                   \* (for calls made one after another: the last call that has returned)
  db,              \* the stored graphs: for each stored graph id, the value of g.data
  reqs,            \* the HTTP requests received by the router, each with its position
                   \* in its handler and its response
  page             \* the state of the ResultPage component and its API calls in flight

analyzer == <<index, stack, indices, lowlinks, onStack, sccs>>

vars == <<graphData, componentNodes, index, stack, indices, lowlinks, onStack, sccs,
          pc, sccRet, cycles, cyclesRet, tinyRet, metricsRet, calls, db, reqs, page>>

(* ------------------------ buildAdjacencyList -------------------------- *)
\* adjacencyList.get(k) || []
GetOrEmpty(m, k) == IF Has(m, k) THEN m[k] ELSE <<>>

RECURSIVE addEdges(_, _, _)
addEdges(adj, edges, i) ==
  IF i > Len(edges) THEN adj
  ELSE LET edge == edges[i]
           neighbors == Append(GetOrEmpty(adj, edge.source), edge.target)
       IN addEdges(Put(adj, edge.source, neighbors), edges, i + 1)

buildAdjacencyListMutant(g) == addEdges(EmptyMap, g.edges, 1)

buildAdjacencyList(g) ==
  addEdges([n \in Range(g.nodes) |-> <<>>], g.edges, 1)

(* --------------------------- strongConnect ---------------------------- *)
\* the instance fields as one record threaded through the recursion
Fields(i, s, ix, ll, os, cs) ==
  [index |-> i, stack |-> s, indices |-> ix, lowlinks |-> ll, onStack |-> os, sccs |-> cs]

\* a reset that keeps this.sccs
resetMutant == Fields(0, <<>>, EmptyMap, EmptyMap, {}, sccs)

\* reset()
reset == Fields(0, <<>>, EmptyMap, EmptyMap, {}, <<>>)

OnStackHasMutant(st, id) == TRUE

\* this.onStack.has(neighborId)
OnStackHas(st, id) == id \in st.onStack

IsRootMutant(st, nodeId) == TRUE

\* this.lowlinks.get(nodeId) === this.indices.get(nodeId)
IsRoot(st, nodeId) == st.lowlinks[nodeId] = st.indices[nodeId]

\* do { w = stack.pop(); onStack.delete(w); scc.push(w) } while (w !== nodeId)
RECURSIVE popScc(_, _, _)
popScc(st, nodeId, scc) ==
  LET w == st.stack[Len(st.stack)]
      st1 == [st EXCEPT !.stack = SubSeq(@, 1, Len(@) - 1), !.onStack = @ \ {w}]
      scc1 == Append(scc, w)
  IN IF w # nodeId THEN popScc(st1, nodeId, scc1)
     ELSE [st1 EXCEPT !.sccs = Append(@, scc1)]

RECURSIVE strongConnect(_, _, _), scNeighbors(_, _, _, _, _)
scNeighbors(st, nodeId, adj, neighbors, i) ==
  IF i > Len(neighbors) THEN st
  ELSE LET neighborId == neighbors[i]
       IN IF ~Has(st.indices, neighborId)
          THEN LET st1 == strongConnect(st, neighborId, adj)
                   st2 == [st1 EXCEPT !.lowlinks =
                             Put(@, nodeId, Min2(st1.lowlinks[nodeId], st1.lowlinks[neighborId]))]
               IN scNeighbors(st2, nodeId, adj, neighbors, i + 1)
          ELSE IF OnStackHas(st, neighborId)
          THEN LET st2 == [st EXCEPT !.lowlinks =
                             Put(@, nodeId, Min2(st.lowlinks[nodeId], st.indices[neighborId]))]
               IN scNeighbors(st2, nodeId, adj, neighbors, i + 1)
          ELSE scNeighbors(st, nodeId, adj, neighbors, i + 1)

strongConnect(st, nodeId, adj) ==
  LET st1 == [st EXCEPT !.indices = Put(@, nodeId, st.index),
                        !.lowlinks = Put(@, nodeId, st.index),
                        !.index = @ + 1,
                        !.stack = Append(@, nodeId),
                        !.onStack = @ \cup {nodeId}]
      st2 == scNeighbors(st1, nodeId, adj, GetOrEmpty(adj, nodeId), 1)
  IN IF IsRoot(st2, nodeId) THEN popScc(st2, nodeId, <<>>) ELSE st2

(* ------------------ findStronglyConnectedComponents ------------------- *)
keepAllMutant(scc) == TRUE

\* the filter predicate scc => scc.length > 1
isCycleScc(scc) == Len(scc) > 1

RECURSIVE sccLoop(_, _, _, _)
sccLoop(st, nodes, adj, i) ==
  IF i > Len(nodes) THEN st
  ELSE IF ~Has(st.indices, nodes[i])
       THEN sccLoop(strongConnect(st, nodes[i], adj), nodes, adj, i + 1)
       ELSE sccLoop(st, nodes, adj, i + 1)

\* the instance fields after the call, from the fields before it
sccRun(g) == sccLoop(reset, g.nodes, buildAdjacencyList(g), 1)

sccResultMutant(st) ==
  LET kept == SelectSeq(st.sccs, isCycleScc)
  IN [k \in 1..Len(kept) |-> kept[Len(kept) + 1 - k]]

\* this.sccs.filter(scc => scc.length > 1)
sccResult(st) == SelectSeq(st.sccs, isCycleScc)

(* ------------------------- findElementaryCycles ----------------------- *)
\* the 100 of "cycles.length < 100" and "cycles.length >= 100"
MaxCycles == 100

\* componentAdj: for each node of componentNodes, its neighbours that are in nodeSet
componentAdjOf(g, compNodes) ==
  LET nodeSet == Range(compNodes)
      adjacencyList == buildAdjacencyList(g)
      inSet(n) == n \in nodeSet
  IN [node \in nodeSet |-> SelectSeq(GetOrEmpty(adjacencyList, node), inSet)]

closesCycleMutant(path, neighbor, startNode) == neighbor = startNode

\* neighbor === startNode && currentPath.length > 1
closesCycle(path, neighbor, startNode) == neighbor = startNode /\ Len(path) > 1

\* the search state: cycles, visited, recursionStack, currentPath
RECURSIVE dfs(_, _, _, _), dfsNeighbors(_, _, _, _, _, _)
dfsNeighbors(cs, node, startNode, cadj, neighbors, i) ==
  IF i > Len(neighbors) THEN cs
  ELSE LET neighbor == neighbors[i]
       IN IF closesCycle(cs.currentPath, neighbor, startNode)
          THEN dfsNeighbors(
                 [cs EXCEPT !.cycles = Append(@, [nodes |-> cs.currentPath,
                                                  length |-> Len(cs.currentPath)])],
                 node, startNode, cadj, neighbors, i + 1)
          ELSE IF neighbor \notin cs.recursionStack /\ Len(cs.cycles) < MaxCycles
          THEN dfsNeighbors(dfs(cs, neighbor, startNode, cadj),
                            node, startNode, cadj, neighbors, i + 1)
          ELSE dfsNeighbors(cs, node, startNode, cadj, neighbors, i + 1)

dfs(cs, node, startNode, cadj) ==
  LET cs1 == [cs EXCEPT !.currentPath = Append(@, node),
                        !.visited = @ \cup {node},
                        !.recursionStack = @ \cup {node}]
      cs2 == dfsNeighbors(cs1, node, startNode, cadj, GetOrEmpty(cadj, node), 1)
  IN [cs2 EXCEPT !.currentPath = SubSeq(@, 1, Len(@) - 1),
                 !.recursionStack = @ \ {node}]

\* for (const startNode of componentNodes) { if (cycles.length >= 100) break; ... }
RECURSIVE startLoop(_, _, _, _)
startLoop(cs, compNodes, cadj, i) ==
  IF i > Len(compNodes) \/ Len(cs.cycles) >= MaxCycles THEN cs
  ELSE LET cs1 == [cs EXCEPT !.visited = {}, !.recursionStack = {}, !.currentPath = <<>>]
       IN startLoop(dfs(cs1, compNodes[i], compNodes[i], cadj), compNodes, cadj, i + 1)

\* the array cycles when the loop over the start nodes has ended
searchCycles(g, compNodes) ==
  startLoop([cycles |-> <<>>, visited |-> {}, recursionStack |-> {}, currentPath |-> <<>>],
            compNodes, componentAdjOf(g, compNodes), 1).cycles

(* --------------------------- normalizeCycle --------------------------- *)
\* the token that stands for the two characters '->'
Arrow == 0

\* the characters of a node id: the ids 1..9 stand for nine one-character
\* strings, and the id 10 * a + b for the string made of a, '->' and b
idText(id) == IF id < 10 THEN <<id>> ELSE <<id \div 10, Arrow, id % 10>>

\* the order of two strings of digits and '->' under the operator <: by the first
\* place at which they differ ('-' is below every digit), a proper prefix first
RECURSIVE lessText(_, _)
lessText(s, t) ==
  IF t = <<>> THEN FALSE
  ELSE IF s = <<>> THEN TRUE
  ELSE IF s[1] # t[1] THEN s[1] < t[1]
  ELSE lessText(Tail(s), Tail(t))

\* the loop "if (nodes[i] < nodes[minIdx]) minIdx = i", 1-based
RECURSIVE minIdxFrom(_, _, _)
minIdxFrom(nodes, minIdx, i) ==
  IF i > Len(nodes) THEN minIdx
  ELSE minIdxFrom(nodes,
                  IF lessText(idText(nodes[i]), idText(nodes[minIdx])) THEN i ELSE minIdx,
                  i + 1)

\* rotated.join('->'): the characters of the ids with the separator between them
RECURSIVE join(_)
join(s) ==
  IF Len(s) = 0 THEN <<>>
  ELSE IF Len(s) = 1 THEN idText(s[1])
  ELSE idText(s[1]) \o <<Arrow>> \o join(Tail(s))

normalizeCycleMutant(nodes) == join(nodes)

normalizeCycle(nodes) ==
  IF Len(nodes) = 0 THEN <<>>
  ELSE LET minIdx == minIdxFrom(nodes, 1, 2)
       IN join(SubSeq(nodes, minIdx, Len(nodes)) \o SubSeq(nodes, 1, minIdx - 1))

(* ------------------------ removeDuplicateCycles ----------------------- *)
\* A cycle is pushed to unique when its normal form is not yet in seen, that is
\* when no earlier entry of the array has the same normal form.
removeDuplicateCycles(cs) ==
  LET normalized == [i \in 1..Len(cs) |-> normalizeCycle(cs[i].nodes)]
      notSeen(i) == \A j \in 1..(i - 1) : normalized[j] # normalized[i]
      kept == SelectSeq([i \in 1..Len(cs) |-> i], notSeen)
  IN [k \in 1..Len(kept) |-> cs[kept[k]]]

(* ------------- uniqueCycles.sort((a, b) => a.length - b.length) ------- *)
sortByLengthMutant(cs) ==
  LET before(j, i) == cs[j].length - cs[i].length < 0
                        \/ (cs[j].length - cs[i].length = 0 /\ j > i)
      rank == [i \in 1..Len(cs) |-> Cardinality({j \in 1..Len(cs) : before(j, i)}) + 1]
  IN [k \in 1..Len(cs) |-> cs[CHOOSE i \in 1..Len(cs) : rank[i] = k]]

\* Array.prototype.sort is stable: entry i goes behind the shorter entries and
\* behind the earlier entries of its own length.
sortByLength(cs) ==
  LET before(j, i) == cs[j].length - cs[i].length < 0
                        \/ (cs[j].length - cs[i].length = 0 /\ j < i)
      rank == [i \in 1..Len(cs) |-> Cardinality({j \in 1..Len(cs) : before(j, i)}) + 1]
  IN [k \in 1..Len(cs) |-> cs[CHOOSE i \in 1..Len(cs) : rank[i] = k]]

findElementaryCycles(found) == sortByLength(removeDuplicateCycles(found))

(* --------------------------- detectTinyCycles ------------------------- *)
NOT_VISITED == "NOT_VISITED"
CURRENTLY_VISITING == "CURRENTLY_VISITING"
VISITED == "VISITED"

\* Array.prototype.includes
Includes(s, x) == \E i \in 1..Len(s) : s[i] = x

pointsBackMutant(cadj, neighbor, node) == TRUE

\* neighborNeighbors.includes(node), neighborNeighbors = componentAdj.get(neighbor) || []
pointsBack(cadj, neighbor, node) == Includes(GetOrEmpty(cadj, neighbor), node)

pairExistsMutant(tinyCDs, node, neighbor) == FALSE

\* tinyCDs.some(cd => (cd.node1 === node && cd.node2 === neighbor) || ...)
pairExists(tinyCDs, node, neighbor) ==
  \E i \in 1..Len(tinyCDs) :
     \/ tinyCDs[i].node1 = node /\ tinyCDs[i].node2 = neighbor
     \/ tinyCDs[i].node1 = neighbor /\ tinyCDs[i].node2 = node

\* the traversal state: tinyCDs and nodesVisitingStatus
RECURSIVE dfsVisit(_, _, _), visitNeighbors(_, _, _, _, _)
visitNeighbors(ts, node, cadj, neighbors, i) ==
  IF i > Len(neighbors) THEN ts
  ELSE LET neighbor == neighbors[i]
       IN IF GetOrEmpty(ts.status, neighbor) = NOT_VISITED
          THEN visitNeighbors(dfsVisit(ts, neighbor, cadj), node, cadj, neighbors, i + 1)
          ELSE IF GetOrEmpty(ts.status, neighbor) = CURRENTLY_VISITING
                  /\ pointsBack(cadj, neighbor, node)
                  /\ ~pairExists(ts.tinyCDs, node, neighbor)
          THEN visitNeighbors(
                 [ts EXCEPT !.tinyCDs = Append(@, [node1 |-> node, node2 |-> neighbor])],
                 node, cadj, neighbors, i + 1)
          ELSE visitNeighbors(ts, node, cadj, neighbors, i + 1)

dfsVisit(ts, node, cadj) ==
  LET ts1 == [ts EXCEPT !.status = Put(@, node, CURRENTLY_VISITING)]
      ts2 == visitNeighbors(ts1, node, cadj, GetOrEmpty(cadj, node), 1)
  IN [ts2 EXCEPT !.status = Put(@, node, VISITED)]

RECURSIVE tinyLoop(_, _, _, _)
tinyLoop(ts, compNodes, cadj, i) ==
  IF i > Len(compNodes) THEN ts
  ELSE IF ts.status[compNodes[i]] = NOT_VISITED
       THEN tinyLoop(dfsVisit(ts, compNodes[i], cadj), compNodes, cadj, i + 1)
       ELSE tinyLoop(ts, compNodes, cadj, i + 1)

detectTinyCycles(g, compNodes) ==
  tinyLoop([tinyCDs |-> <<>>, status |-> [n \in Range(compNodes) |-> NOT_VISITED]],
           compNodes, componentAdjOf(g, compNodes), 1).tinyCDs

(* --------------------------- calculateMetrics ------------------------- *)
\* map.get(k) || 0
GetOrZero(m, k) == IF Has(m, k) THEN m[k] ELSE 0

\* the key `${edge.source}->${edge.target}`
pairKey(edge) == idText(edge.source) \o <<Arrow>> \o idText(edge.target)

\* the body of the loop over graphData.edges: outDegrees, inDegrees, selfLoops,
\* edgePairs
countEdgeMutant(ms, edge) ==
  [outDegrees |-> Put(ms.outDegrees, edge.source,
                      GetOrZero(ms.outDegrees, edge.source) + 1),
   inDegrees |-> IF edge.source = edge.target THEN ms.inDegrees
                 ELSE Put(ms.inDegrees, edge.target,
                          GetOrZero(ms.inDegrees, edge.target) + 1),
   selfLoops |-> IF edge.source = edge.target
                 THEN ms.selfLoops + 1 ELSE ms.selfLoops,
   edgePairs |-> Put(ms.edgePairs, pairKey(edge),
                     GetOrZero(ms.edgePairs, pairKey(edge)) + 1)]

countEdge(ms, edge) ==
  [outDegrees |-> Put(ms.outDegrees, edge.source,
                      GetOrZero(ms.outDegrees, edge.source) + 1),
   inDegrees |-> Put(ms.inDegrees, edge.target,
                     GetOrZero(ms.inDegrees, edge.target) + 1),
   selfLoops |-> IF edge.source = edge.target
                 THEN ms.selfLoops + 1 ELSE ms.selfLoops,
   edgePairs |-> Put(ms.edgePairs, pairKey(edge),
                     GetOrZero(ms.edgePairs, pairKey(edge)) + 1)]

\* for (const edge of graphData.edges)
RECURSIVE countEdges(_, _, _)
countEdges(ms, edges, i) ==
  IF i > Len(edges) THEN ms ELSE countEdges(countEdge(ms, edges[i]), edges, i + 1)

\* for (const count of edgePairs.values()) if (count > 1) multiEdges += count - 1
RECURSIVE countMultiEdges(_, _)
countMultiEdges(edgePairs, keys) ==
  IF keys = {} THEN 0
  ELSE LET k == CHOOSE x \in keys : TRUE
           count == edgePairs[k]
       IN (IF count > 1 THEN count - 1 ELSE 0) + countMultiEdges(edgePairs, keys \ {k})

\* Math.max(...degreeValues)
maxOfMutant(values, i) == values[Len(values)]

RECURSIVE maxOf(_, _)
maxOf(values, i) ==
  IF i = Len(values) THEN values[i]
  ELSE LET rest == maxOf(values, i + 1) IN IF values[i] > rest THEN values[i] ELSE rest

\* degreeValues.reduce((a, b) => a + b, 0)
RECURSIVE sumOf(_, _)
sumOf(values, i) == IF i > Len(values) THEN 0 ELSE values[i] + sumOf(values, i + 1)

\* a / b of two numbers, kept as the pair of a and b
Quotient(a, b) == [num |-> a, den |-> b]

Zero == [num |-> 0, den |-> 1]

\* degreeValues.length > 0 ? degreeValues.reduce(...) / degreeValues.length : 0
avgDegreeMutant(degreeValues) == Quotient(sumOf(degreeValues, 1), Len(degreeValues))

avgDegree(degreeValues) ==
  IF Len(degreeValues) > 0
  THEN Quotient(sumOf(degreeValues, 1), Len(degreeValues)) ELSE Zero

\* nodeCount * (nodeCount - 1)
maxPossibleEdgesMutant(nodeCount) == nodeCount * nodeCount

maxPossibleEdges(nodeCount) == nodeCount * (nodeCount - 1)

\* the metrics, from the graph and the result of findStronglyConnectedComponents
calculateMetrics(g, components) ==
  LET nodeCount == Len(g.nodes)
      edgeCount == Len(g.edges)
      ms == countEdges([outDegrees |-> [n \in Range(g.nodes) |-> 0],
                        inDegrees |-> [n \in Range(g.nodes) |-> 0],
                        selfLoops |-> 0,
                        edgePairs |-> EmptyMap],
                       g.edges, 1)
      totalDegrees == [n \in Range(g.nodes) |->
                         GetOrZero(ms.inDegrees, n) + GetOrZero(ms.outDegrees, n)]
      \* Array.from(totalDegrees.values()): one value per key, in insertion order
      keyOrder == LET first(i) == \A j \in 1..(i - 1) : g.nodes[j] # g.nodes[i]
                  IN SelectSeq([i \in 1..Len(g.nodes) |-> i], first)
      degreeValues == [k \in 1..Len(keyOrder) |-> totalDegrees[g.nodes[keyOrder[k]]]]
  IN [nodeCount |-> nodeCount,
      edgeCount |-> edgeCount,
      avgDegree |-> avgDegree(degreeValues),
      maxDegree |-> IF Len(degreeValues) > 0 THEN maxOf(degreeValues, 1) ELSE 0,
      stronglyConnectedComponents |-> components,
      density |-> IF maxPossibleEdges(nodeCount) > 0
                  THEN Quotient(edgeCount, maxPossibleEdges(nodeCount)) ELSE Zero,
      inDegrees |-> ms.inDegrees,
      outDegrees |-> ms.outDegrees,
      selfLoops |-> ms.selfLoops,
      multiEdges |-> countMultiEdges(ms.edgePairs, DOMAIN ms.edgePairs)]

(* ------------------------------ inputs -------------------------------- *)
EdgeValues(ids) == [source : ids, target : ids]

\* graph.nodes holds the ids 1..n or the ids 1..n-1 (ids are unique within a
\* graph); in the second case n is the id of no node, and an edge that names it
\* is a dangling edge
NodeLists(n) == {[i \in 1..k |-> i] : k \in {n - 1, n}}

EdgeLists(n, m) == SeqsUpTo(EdgeValues(1..n), m)

\* the complete graph on 1..n, the edges of a node listed by ascending or descending target
CompleteEdges(n, asc) ==
  LET tgt(s, j) == LET t == IF asc THEN j ELSE n - j IN IF t >= s THEN t + 1 ELSE t
  IN [e \in 1..(n * (n - 1)) |->
        LET s == ((e - 1) \div (n - 1)) + 1
            j == ((e - 1) % (n - 1)) + 1
        IN [source |-> s, target |-> tgt(s, j)]]

\* the edge lists of the loop-free simple digraphs on 1..n with up to m edges,
\* each edge between two ids that differ by 1 or 2
SimpleEdgeLists(n, m) ==
  LET near(e) == e.source - e.target \in {-2, -1, 1, 2}
      all == SelectSeq(CompleteEdges(n, TRUE), near)
      pick(I) == LET chosen(i) == i \in I
                     kept == SelectSeq([i \in 1..Len(all) |-> i], chosen)
                 IN [k \in 1..Len(kept) |-> all[kept[k]]]
  IN {pick(I) : I \in {J \in SUBSET (1..Len(all)) : Cardinality(J) <= m}}

SccInputs ==
  UNION {[nodes : NodeLists(n), edges : EdgeLists(n, MaxSize - n)] : n \in 1..MaxSize}
    \cup [nodes : {[i \in 1..MaxSimpleNodes |-> i]},
          edges : SimpleEdgeLists(MaxSimpleNodes, MaxSimpleEdges)]

\* the i-th id of the metrics inputs: 1, '1->1', 2, '2->1', 3, ...
MetricsId(i) == IF i % 2 = 1 THEN (i + 1) \div 2 ELSE 10 * (i \div 2) + 1

\* every edge list over the first n of these ids of up to MaxMetricsSize - n
\* edges, with graph.nodes any prefix of these ids
MetricsInputs ==
  UNION {[nodes : {[i \in 1..k |-> MetricsId(i)] : k \in 0..n},
          edges : SeqsUpTo(EdgeValues({MetricsId(i) : i \in 1..n}), MaxMetricsSize - n)]
           : n \in 1..MaxMetricsSize}

CycleInputs ==
  UNION {[graphData : [nodes : NodeLists(n), edges : EdgeLists(n, MaxCycleSize - n)],
          componentNodes : SeqsUpTo(1..n, MaxComp)] : n \in 1..MaxCycleSize}
    \cup [graphData : [nodes : {[i \in 1..MaxSimpleNodes |-> i]},
                       edges : SimpleEdgeLists(MaxSimpleNodes, MaxSimpleEdges)],
          componentNodes : {[i \in 1..MaxSimpleNodes |-> i],
                            [i \in 1..MaxSimpleNodes |-> MaxSimpleNodes + 1 - i]}]
    \cup {[graphData |-> [nodes |-> [i \in 1..n |-> i], edges |-> CompleteEdges(n, asc)],
           componentNodes |-> [i \in 1..n |-> i]] : n \in 2..MaxDense, asc \in BOOLEAN}

EngineInputs ==
  UNION {[graphData : [nodes : NodeLists(n), edges : EdgeLists(n, MaxEngineSize - n)],
          componentNodes : SeqsUpTo(1..n, MaxEngineComp)] : n \in 1..MaxEngineSize}

(* ----------------------------- behaviour ------------------------------ *)
\* what a call leaves in its arguments: the in-place operations of the engine
\* (push, pop, sort, length = 0, Map.set, Set.add) all act on the fields of the
\* analyzer or on arrays, maps and sets allocated during the call, and filter and
\* the spread [...currentPath] make new arrays; graphData and componentNodes are
\* only read
argsAfterMutant(g, compNodes) == [graphData |-> g, componentNodes |-> <<>>]

argsAfter(g, compNodes) == [graphData |-> g, componentNodes |-> compNodes]

\* the fields of a new GraphAnalyzer, and no operation called yet
\* no results page is open
NotMounted == <<>>

InitFields ==
  /\ index = 0
  /\ stack = <<>>
  /\ indices = EmptyMap
  /\ lowlinks = EmptyMap
  /\ onStack = {}
  /\ sccs = <<>>
  /\ pc = "new"
  /\ sccRet = <<>>
  /\ cycles = <<>>
  /\ cyclesRet = <<>>
  /\ tinyRet = <<>>
  /\ metricsRet = <<>>

InitAnalyzer ==
  /\ InitFields
  /\ calls = <<>>
  /\ db = EmptyMap
  /\ reqs = <<>>
  /\ page = NotMounted

Init ==
  /\ graphData \in SccInputs
  /\ componentNodes = <<>>
  /\ InitAnalyzer

FindStronglyConnectedComponents ==
  /\ pc = "new"
  /\ \E st \in {sccRun(graphData)} :
        /\ index' = st.index
        /\ stack' = st.stack
        /\ indices' = st.indices
        /\ lowlinks' = st.lowlinks
        /\ onStack' = st.onStack
        /\ sccs' = st.sccs
        /\ sccRet' = sccResult(st)
  /\ pc' = "scc"
  /\ graphData' = argsAfter(graphData, componentNodes).graphData
  /\ componentNodes' = argsAfter(graphData, componentNodes).componentNodes
  /\ UNCHANGED <<cycles, cyclesRet, tinyRet, metricsRet, calls, db, reqs, page>>

FindElementaryCycles ==
  /\ pc = "new"
  /\ \E found \in {searchCycles(graphData, componentNodes)} :
        /\ cycles' = found
        /\ cyclesRet' = findElementaryCycles(found)
  /\ pc' = "cycles"
  /\ graphData' = argsAfter(graphData, componentNodes).graphData
  /\ componentNodes' = argsAfter(graphData, componentNodes).componentNodes
  /\ UNCHANGED <<analyzer, sccRet, tinyRet, metricsRet, calls, db, reqs, page>>

DetectTinyCycles ==
  /\ pc = "new"
  /\ tinyRet' = detectTinyCycles(graphData, componentNodes)
  /\ pc' = "tiny"
  /\ graphData' = argsAfter(graphData, componentNodes).graphData
  /\ componentNodes' = argsAfter(graphData, componentNodes).componentNodes
  /\ UNCHANGED <<analyzer, sccRet, cycles, cyclesRet, metricsRet, calls, db, reqs, page>>

\* calculateMetrics calls this.findStronglyConnectedComponents(graphData)
CalculateMetrics ==
  /\ pc = "new"
  /\ \E st \in {sccRun(graphData)} :
        /\ index' = st.index
        /\ stack' = st.stack
        /\ indices' = st.indices
        /\ lowlinks' = st.lowlinks
        /\ onStack' = st.onStack
        /\ sccs' = st.sccs
        /\ metricsRet' = calculateMetrics(graphData, sccResult(st))
  /\ pc' = "metrics"
  /\ graphData' = argsAfter(graphData, componentNodes).graphData
  /\ componentNodes' = argsAfter(graphData, componentNodes).componentNodes
  /\ UNCHANGED <<sccRet, cycles, cyclesRet, tinyRet, calls, db, reqs, page>>

Next == FindStronglyConnectedComponents \/ CalculateMetrics

Spec == Init /\ [][Next]_vars

\* calculateMetrics on graphs whose ids may hold the characters '->'
InitMetrics ==
  /\ graphData \in MetricsInputs
  /\ componentNodes = <<>>
  /\ InitAnalyzer

SpecMetrics == InitMetrics /\ [][CalculateMetrics]_vars

\* the four operations of the engine, each on every input
InitEngine ==
  /\ \E inp \in EngineInputs :
        /\ graphData = inp.graphData
        /\ componentNodes = inp.componentNodes
  /\ InitAnalyzer

NextEngine ==
  \/ FindStronglyConnectedComponents
  \/ FindElementaryCycles
  \/ DetectTinyCycles
  \/ CalculateMetrics

SpecEngine == InitEngine /\ [][NextEngine]_vars

(* --- findStronglyConnectedComponents, two calls on the shared analyzer --- *)
\* The routes share one GraphAnalyzer (const analyzer = new GraphAnalyzer()).
\* A call is taken in steps: reset(), then one step for each iteration of the
\* loop over graphData.nodes, then the return; the steps of the two calls
\* interleave. adjacencyList is a local of the call.
CallInputs == [nodes : {[i \in 1..MaxCallIds |-> i]}, edges : EdgeLists(MaxCallIds, MaxCallEdges)]

InitCalls ==
  /\ graphData = [nodes |-> <<>>, edges |-> <<>>]
  /\ componentNodes = <<>>
  /\ InitFields
  /\ db = EmptyMap
  /\ reqs = <<>>
  /\ page = NotMounted
  /\ \E g1, g2 \in CallInputs :
        /\ g1 # g2
        /\ calls = [c \in 1..2 |->
                      [graphData |-> IF c = 1 THEN g1 ELSE g2, at |-> "reset", i |-> 1, ret |-> <<>>]]

\* what the steps of a call leave alone
outsideCalls ==
  <<graphData, componentNodes, pc, sccRet, cycles, cyclesRet, tinyRet, metricsRet, db, reqs, page>>

\* the instance fields, read as one record
fields == Fields(index, stack, indices, lowlinks, onStack, sccs)

\* the instance fields, written from one record
SetFields(st) ==
  /\ index' = st.index
  /\ stack' = st.stack
  /\ indices' = st.indices
  /\ lowlinks' = st.lowlinks
  /\ onStack' = st.onStack
  /\ sccs' = st.sccs

\* this.reset()
CallReset(c) ==
  /\ calls[c].at = "reset"
  /\ SetFields(reset)
  /\ calls' = [calls EXCEPT ![c].at = "loop"]
  /\ UNCHANGED outsideCalls

\* one iteration of for (const node of graphData.nodes)
CallVisit(c) ==
  /\ calls[c].at = "loop"
  /\ calls[c].i <= Len(calls[c].graphData.nodes)
  /\ LET node == calls[c].graphData.nodes[calls[c].i]
     IN IF ~Has(indices, node)
        THEN \E st \in {strongConnect(fields, node, buildAdjacencyList(calls[c].graphData))} :
               SetFields(st)
        ELSE UNCHANGED analyzer
  /\ calls' = [calls EXCEPT ![c].i = @ + 1]
  /\ UNCHANGED outsideCalls

\* return this.sccs.filter(scc => scc.length > 1)
CallReturn(c) ==
  /\ calls[c].at = "loop"
  /\ calls[c].i > Len(calls[c].graphData.nodes)
  /\ calls' = [calls EXCEPT ![c].at = "done", ![c].ret = SelectSeq(sccs, isCycleScc)]
  /\ UNCHANGED <<analyzer, outsideCalls>>

NextCalls == \E c \in 1..2 : CallReset(c) \/ CallVisit(c) \/ CallReturn(c)

SpecCalls == InitCalls /\ [][NextCalls]_vars

(* ------------------------------ the routes ---------------------------- *)
\* The router: each handler runs up to its await of session.run in one step (the
\* query acts on the storage in that step) and from there to its response in a
\* second step; the steps of different requests interleave. The two GET routes
\* read the storage and call no engine operation; they are left out.
GraphIds == {"g1", "g2"}

\* the data of a new graph, { nodes: [], edges: [] }
EmptyData == [nodes |-> <<>>, edges |-> <<>>]

\* a graph with a tiny cycle, as a PUT stores it
CyclicData ==
  [nodes |-> <<1, 2>>,
   edges |-> <<[source |-> 1, target |-> 2], [source |-> 2, target |-> 1]>>]

\* a document without the array nodes, as a PUT stores it
NoNodesData == [edges |-> <<>>]

\* JSON.stringify(v): the text of v, kept as the value it is the text of
JSONstringify(v) == [json |-> v]

JSONparseMutant(text) == EmptyData

\* JSON.parse(text)
JSONparse(text) == text.json

\* a value of the request body: its JavaScript type and, for an array or an
\* object, its content
JsValue(t, v) == [type |-> t, value |-> v]

Undefined == JsValue("undefined", <<>>)

\* !v is false (the strings of the model are not empty)
truthy(v) == v.type \notin {"undefined", "null"}

\* Array.isArray(v)
isArray(v) == v.type = "array"

\* !componentNodes || !Array.isArray(componentNodes)
rejectsComponentNodesMutant(v) == ~truthy(v)

rejectsComponentNodes(v) == ~truthy(v) \/ ~isArray(v)

ComponentNodesValues ==
  {Undefined, JsValue("null", <<>>), JsValue("string", <<>>),
   JsValue("array", <<>>), JsValue("array", <<1, 2>>)}

NewRequest(route, id, cn, data, name) ==
  [route |-> route, id |-> id, componentNodes |-> cn, data |-> data, name |-> name,
   at |-> "received", present |-> FALSE, records |-> <<>>, queried |-> FALSE,
   threw |-> FALSE, engine |-> 0, opened |-> 0, closed |-> 0, status |-> 0, body |-> <<>>]

Requests ==
  {NewRequest("analyze", id, Undefined, Undefined, Undefined) : id \in GraphIds}
    \cup {NewRequest(route, id, cn, Undefined, Undefined) :
            route \in {"find-cycles", "detect-tiny-cycles"}, id \in GraphIds,
            cn \in ComponentNodesValues}
    \cup {NewRequest("delete", id, Undefined, Undefined, Undefined) : id \in GraphIds}
    \cup {NewRequest("put", id, Undefined, data, Undefined) :
            id \in GraphIds,
            data \in {Undefined, JsValue("object", CyclicData), JsValue("object", NoNodesData)}}
    \cup {NewRequest("create", "", Undefined, Undefined, name) :
            name \in {Undefined, JsValue("string", <<>>)}}

\* the requests in a fixed order
RECURSIVE listOf(_)
listOf(S) == IF S = {} THEN <<>> ELSE LET r == CHOOSE x \in S : TRUE IN <<r>> \o listOf(S \ {r})

RequestList == listOf(Requests)

\* the place in RequestList of the request r as it was received
placeOf(r) ==
  LET id == IF r.route = "create" THEN "" ELSE r.id
      received == NewRequest(r.route, id, r.componentNodes, r.data, r.name)
  IN CHOOSE i \in 1..Len(RequestList) : RequestList[i] = received

\* the sets of stored graph ids: none, one or both (the ids are interchangeable)
StoredIds == {{}, {"g1"}, GraphIds}

\* each graph id is absent from the storage or holds a graph as POST / stores it
InitRoutes ==
  /\ graphData = EmptyData
  /\ componentNodes = <<>>
  /\ InitFields
  /\ calls = <<>>
  /\ db \in UNION {[S -> {JSONstringify(EmptyData)}] : S \in StoredIds}
  /\ reqs = <<>>
  /\ page = NotMounted

\* what no handler writes
outsideRoutes ==
  <<graphData, componentNodes, pc, sccRet, cycles, cyclesRet, tinyRet, metricsRet, calls, page>>

\* res.status(status).json(body)
respond(r, status, body) == [r EXCEPT !.at = "responded", !.status = status, !.body = body]

\* result.records of 'MATCH (g:Graph {id: $id}) RETURN g.data as data'
fetchedMutant(r) ==
  [r EXCEPT !.at = "queried", !.queried = TRUE,
            !.records = IF r.id \in DOMAIN db THEN <<db[r.id]>> ELSE <<JSONstringify(EmptyData)>>]

fetched(r) ==
  [r EXCEPT !.at = "queried", !.queried = TRUE,
            !.records = IF r.id \in DOMAIN db THEN <<db[r.id]>> ELSE <<>>]

\* the request, with the note of whether its graph id is stored when its handler
\* starts (the note is read by no handler)
started(r) == [r EXCEPT !.present = r.id \in DOMAIN db]

\* driver.session()
session(r) == [r EXCEPT !.opened = @ + 1]

closeSessionMutant(r) == r

\* the finally block: session.close()
closeSession(r) == [r EXCEPT !.closed = @ + 1]

caughtMutant(r, message) == respond(r, 200, [metrics |-> <<>>, cycles |-> <<>>, tinyCycles |-> <<>>])

\* the catch block
caught(r, message) == respond(r, 500, [error |-> message])

\* the catch block, after session.run has thrown, and the finally block
failed(r, message) ==
  closeSession([caught(r, message) EXCEPT !.queried = TRUE, !.threw = TRUE])

\* graphData.nodes.length and the loop "for (const node of graphData.nodes)" throw
\* a TypeError when the document has no nodes
engineThrows(doc) == "nodes" \notin DOMAIN doc

\* a request arrives. The handlers of the requests in reqs run interleaved in
\* every order, whatever their positions in reqs, so reqs lists the requests by
\* their place in RequestList instead of by arrival
Receive ==
  /\ Len(reqs) < MaxRequests
  /\ \E r \in Requests :
       /\ reqs # <<>> => placeOf(reqs[Len(reqs)]) <= placeOf(r)
       /\ reqs' = Append(reqs, r)
  /\ UNCHANGED <<db, analyzer, outsideRoutes>>

\* POST /:id/analyze, up to the await
AnalyzeQuery(k) ==
  /\ reqs[k].route = "analyze" /\ reqs[k].at = "received"
  /\ \E ok \in BOOLEAN :
       reqs' = [reqs EXCEPT ![k] = IF ok THEN fetched(session(started(@)))
                                    ELSE failed(session(started(@)), "Failed to analyze graph")]
  /\ UNCHANGED <<db, analyzer, outsideRoutes>>

\* POST /:id/analyze, after the await
AnalyzeRespond(k) ==
  /\ reqs[k].route = "analyze" /\ reqs[k].at = "queried"
  /\ IF reqs[k].records = <<>>
     THEN /\ reqs' = [reqs EXCEPT ![k] =
                        closeSession(respond(@, 404, [error |-> "Graph not found"]))]
          /\ UNCHANGED analyzer
     ELSE \E doc \in {JSONparse(reqs[k].records[1])} :
            IF engineThrows(doc)
            THEN /\ reqs' = [reqs EXCEPT ![k] =
                               closeSession([caught(@, "Failed to analyze graph")
                                               EXCEPT !.engine = @ + 1])]
                 /\ UNCHANGED analyzer
            ELSE \E st \in {sccRun(doc)} :
                   /\ SetFields(st)
                   /\ reqs' = [reqs EXCEPT ![k] =
                        closeSession(
                          [respond(@, 200,
                                   [metrics |-> calculateMetrics(doc, sccResult(st)),
                                    graphData |-> doc])
                             EXCEPT !.engine = @ + 1])]
  /\ UNCHANGED <<db, outsideRoutes>>

\* POST /:id/find-cycles, up to the await
FindCyclesQuery(k) ==
  /\ reqs[k].route = "find-cycles" /\ reqs[k].at = "received"
  /\ IF rejectsComponentNodes(reqs[k].componentNodes)
     THEN reqs' = [reqs EXCEPT ![k] =
                     respond(started(@), 400, [error |-> "Component nodes array is required"])]
     ELSE \E ok \in BOOLEAN :
            reqs' = [reqs EXCEPT ![k] = IF ok THEN fetched(session(started(@)))
                                         ELSE failed(session(started(@)), "Failed to find cycles")]
  /\ UNCHANGED <<db, analyzer, outsideRoutes>>

\* POST /:id/find-cycles, after the await
FindCyclesRespond(k) ==
  /\ reqs[k].route = "find-cycles" /\ reqs[k].at = "queried"
  /\ reqs' = [reqs EXCEPT ![k] =
       closeSession(
         IF reqs[k].records = <<>>
         THEN respond(@, 404, [error |-> "Graph not found"])
         ELSE LET doc == JSONparse(reqs[k].records[1])
              IN IF engineThrows(doc)
                 THEN [caught(@, "Failed to find cycles") EXCEPT !.engine = @ + 1]
                 ELSE [respond(@, 200,
                               [cycles |-> findElementaryCycles(
                                  searchCycles(doc, reqs[k].componentNodes.value))])
                         EXCEPT !.engine = @ + 1])]
  /\ UNCHANGED <<db, analyzer, outsideRoutes>>

\* POST /:id/detect-tiny-cycles, up to the await
DetectTinyCyclesQuery(k) ==
  /\ reqs[k].route = "detect-tiny-cycles" /\ reqs[k].at = "received"
  /\ IF rejectsComponentNodes(reqs[k].componentNodes)
     THEN reqs' = [reqs EXCEPT ![k] =
                     respond(started(@), 400, [error |-> "Component nodes array is required"])]
     ELSE \E ok \in BOOLEAN :
            reqs' = [reqs EXCEPT ![k] = IF ok THEN fetched(session(started(@)))
                                         ELSE failed(session(started(@)), "Failed to detect tiny cycles")]
  /\ UNCHANGED <<db, analyzer, outsideRoutes>>

\* POST /:id/detect-tiny-cycles, after the await
DetectTinyCyclesRespond(k) ==
  /\ reqs[k].route = "detect-tiny-cycles" /\ reqs[k].at = "queried"
  /\ reqs' = [reqs EXCEPT ![k] =
       closeSession(
         IF reqs[k].records = <<>>
         THEN respond(@, 404, [error |-> "Graph not found"])
         ELSE LET doc == JSONparse(reqs[k].records[1])
              IN IF engineThrows(doc)
                 THEN [caught(@, "Failed to detect tiny cycles") EXCEPT !.engine = @ + 1]
                 ELSE [respond(@, 200,
                               [tinyCycles |-> detectTinyCycles(doc,
                                                                reqs[k].componentNodes.value)])
                         EXCEPT !.engine = @ + 1])]
  /\ UNCHANGED <<db, analyzer, outsideRoutes>>

\* DELETE /:id, up to the await: 'MATCH (g:Graph {id: $id}) DELETE g RETURN count(g)'
DeleteQuery(k) ==
  /\ reqs[k].route = "delete" /\ reqs[k].at = "received"
  /\ \E ok \in BOOLEAN :
       IF ok
       THEN /\ reqs' = [reqs EXCEPT ![k] = fetched(session(started(@)))]
            /\ db' = [id \in DOMAIN db \ {reqs[k].id} |-> db[id]]
       ELSE /\ reqs' = [reqs EXCEPT ![k] = failed(session(started(@)), "Failed to delete graph")]
            /\ UNCHANGED db
  /\ UNCHANGED <<analyzer, outsideRoutes>>

\* DELETE /:id, after the await: deleted is the number of records matched
DeleteRespond(k) ==
  /\ reqs[k].route = "delete" /\ reqs[k].at = "queried"
  /\ reqs' = [reqs EXCEPT ![k] =
       closeSession(IF Len(reqs[k].records) = 0
                    THEN respond(@, 404, [error |-> "Graph not found"])
                    ELSE respond(@, 200, [message |-> "Graph deleted successfully"]))]
  /\ UNCHANGED <<db, analyzer, outsideRoutes>>

\* PUT /:id, up to the await: 'MATCH (g:Graph {id: $id}) SET g.data = $data RETURN g'
PutQuery(k) ==
  /\ reqs[k].route = "put" /\ reqs[k].at = "received"
  /\ IF ~truthy(reqs[k].data)
     THEN /\ reqs' = [reqs EXCEPT ![k] = respond(started(@), 400, [error |-> "Data is required"])]
          /\ UNCHANGED db
     ELSE \E ok \in BOOLEAN :
            IF ok
            THEN /\ reqs' = [reqs EXCEPT ![k] = fetched(session(started(@)))]
                 /\ db' = [id \in DOMAIN db |->
                             IF id = reqs[k].id THEN JSONstringify(reqs[k].data.value)
                             ELSE db[id]]
            ELSE /\ reqs' = [reqs EXCEPT ![k] = failed(session(started(@)), "Failed to update graph")]
                 /\ UNCHANGED db
  /\ UNCHANGED <<analyzer, outsideRoutes>>

\* PUT /:id, after the await
PutRespond(k) ==
  /\ reqs[k].route = "put" /\ reqs[k].at = "queried"
  /\ reqs' = [reqs EXCEPT ![k] =
       closeSession(IF reqs[k].records = <<>>
                    THEN respond(@, 404, [error |-> "Graph not found"])
                    ELSE respond(@, 200, [message |-> "Graph updated successfully"]))]
  /\ UNCHANGED <<db, analyzer, outsideRoutes>>

\* POST /, up to the await: the new id is one that no stored graph has
CreateQuery(k) ==
  /\ reqs[k].route = "create" /\ reqs[k].at = "received"
  /\ IF ~truthy(reqs[k].name)
     THEN /\ reqs' = [reqs EXCEPT ![k] = respond(started(@), 400, [error |-> "Name is required"])]
          /\ UNCHANGED db
     ELSE \E id \in GraphIds \ DOMAIN db, ok \in BOOLEAN :
            IF ok
            THEN /\ reqs' = [reqs EXCEPT ![k] =
                               [session(@) EXCEPT !.at = "queried", !.queried = TRUE, !.id = id]]
                 /\ db' = Put(db, id, JSONstringify(EmptyData))
            ELSE /\ reqs' = [reqs EXCEPT ![k] = failed(session(started(@)), "Failed to create graph")]
                 /\ UNCHANGED db
  /\ UNCHANGED <<analyzer, outsideRoutes>>

\* POST /, after the await
CreateRespond(k) ==
  /\ reqs[k].route = "create" /\ reqs[k].at = "queried"
  /\ reqs' = [reqs EXCEPT ![k] =
                  closeSession(respond(@, 201, [id |-> reqs[k].id, name |-> reqs[k].name]))]
  /\ UNCHANGED <<db, analyzer, outsideRoutes>>

NextRoutes ==
  \/ Receive
  \/ \E k \in 1..MaxRequests :
       /\ k <= Len(reqs)
       /\ \/ AnalyzeQuery(k) \/ AnalyzeRespond(k)
          \/ FindCyclesQuery(k) \/ FindCyclesRespond(k)
          \/ DetectTinyCyclesQuery(k) \/ DetectTinyCyclesRespond(k)
          \/ DeleteQuery(k) \/ DeleteRespond(k)
          \/ PutQuery(k) \/ PutRespond(k)
          \/ CreateQuery(k) \/ CreateRespond(k)

SpecRoutes == InitRoutes /\ [][NextRoutes]_vars

(* ------------------------- the two detectors -------------------------- *)
\* node ids of which one holds the characters '->'
ArrowIds == <<1, 2, 3, 23>>

\* the loop-free simple digraphs on ArrowIds with up to MaxArrowEdges edges, the
\* edges listed by source and target in the order of ArrowIds
ArrowEdgeLists ==
  LET all == CompleteEdges(Len(ArrowIds), TRUE)
      pick(I) == LET chosen(i) == i \in I
                     kept == SelectSeq([i \in 1..Len(all) |-> i], chosen)
                 IN [k \in 1..Len(kept) |->
                       [source |-> ArrowIds[all[kept[k]].source],
                        target |-> ArrowIds[all[kept[k]].target]]]
  IN {pick(I) : I \in {J \in SUBSET (1..Len(all)) : Cardinality(J) <= MaxArrowEdges}}

DetectorInputs ==
  [graphData : [nodes : {ArrowIds}, edges : ArrowEdgeLists], componentNodes : {ArrowIds}]

InitDetectors ==
  /\ \E inp \in DetectorInputs :
       graphData = inp.graphData /\ componentNodes = inp.componentNodes
  /\ InitAnalyzer

SpecDetectors == InitDetectors /\ [][FindElementaryCycles \/ DetectTinyCycles]_vars

(* ------------------------ calls one after another --------------------- *)
\* The routes call the operations on one GraphAnalyzer, each call after the
\* return of the one before. calls holds the last earlier call that wrote the
\* fields, with the components it found.
SeqInputs ==
  UNION {[nodes : {[i \in 1..n |-> i]}, edges : EdgeLists(n, MaxSeqSize - n)]
           : n \in 1..MaxSeqSize}

InitSeq ==
  /\ graphData \in SeqInputs
  /\ componentNodes = graphData.nodes
  /\ InitAnalyzer

\* the caller has the result of a call and makes the next call, on the analyzer
\* as the calls before left it
CallAgain ==
  /\ pc # "new"
  /\ \E g \in SeqInputs : graphData' = g /\ componentNodes' = g.nodes
  /\ pc' = "new"
  /\ calls' = IF pc = "scc" THEN <<[at |-> "returned", ret |-> sccRet]>>
               ELSE IF pc = "metrics"
               THEN <<[at |-> "returned", ret |-> metricsRet.stronglyConnectedComponents]>>
               ELSE calls
  /\ sccRet' = <<>> /\ cycles' = <<>> /\ cyclesRet' = <<>> /\ tinyRet' = <<>> /\ metricsRet' = <<>>
  /\ UNCHANGED <<analyzer, db, reqs, page>>

NextSeq ==
  \/ CallAgain
  \/ FindStronglyConnectedComponents
  \/ FindElementaryCycles
  \/ DetectTinyCycles
  \/ CalculateMetrics

SpecSeq == InitSeq /\ [][NextSeq]_vars

(* ------------------------ the results page ---------------------------- *)
\* ResultPage keeps selectedComponent, cycles and tinyCycles as separate pieces
\* of state. A click starts an API call and returns; the call's response is
\* handled later, in any order with the other responses and clicks.
MaxClicks == 3

\* stored graphs with two components
PageInputs ==
  {[nodes |-> <<1, 2, 3, 4>>,
    edges |-> <<[source |-> 1, target |-> 2], [source |-> 2, target |-> 1],
                [source |-> 3, target |-> 4], [source |-> 4, target |-> 3]>>],
   [nodes |-> <<1, 2, 3, 4, 5>>,
    edges |-> <<[source |-> 1, target |-> 2], [source |-> 2, target |-> 3],
                [source |-> 3, target |-> 1], [source |-> 3, target |-> 2],
                [source |-> 4, target |-> 5], [source |-> 5, target |-> 4]>>]}

\* the useState initial values, and loadResults started by the effect
InitPage ==
  /\ graphData \in PageInputs
  /\ componentNodes = <<>>
  /\ InitFields
  /\ calls = <<>>
  /\ db = EmptyMap
  /\ reqs = <<>>
  /\ page = [loading |-> TRUE, analyzing |-> TRUE,
             result |-> JsValue("null", <<>>),
             selectedComponent |-> JsValue("null", <<>>),
             cycles |-> <<>>, tinyCycles |-> <<>>,
             loadingCycles |-> FALSE, loadingTinyCycles |-> FALSE,
             pending |-> <<>>, clicks |-> 0]

outsidePage ==
  <<graphData, componentNodes, analyzer, pc, sccRet, cycles, cyclesRet, tinyRet,
    metricsRet, calls, db, reqs>>

\* s without its k-th element
RemoveAt(s, k) == [i \in 1..(Len(s) - 1) |-> IF i < k THEN s[i] ELSE s[i + 1]]

\* the responses of the server for the stored graph
analyzeResponse == calculateMetrics(graphData, sccResult(sccRun(graphData)))

findCyclesResponse(compNodes) == findElementaryCycles(searchCycles(graphData, compNodes))

detectTinyCyclesResponse(compNodes) == detectTinyCycles(graphData, compNodes)

\* loadResults, after the await: the response has arrived
LoadResultsResolves ==
  /\ page.analyzing
  /\ page' = [page EXCEPT
                !.result = JsValue("object", analyzeResponse.stronglyConnectedComponents),
                !.loading = FALSE, !.analyzing = FALSE]
  /\ UNCHANGED outsidePage

\* loadResults, after the await: the call has failed
LoadResultsRejects ==
  /\ page.analyzing
  /\ page' = [page EXCEPT !.loading = FALSE, !.analyzing = FALSE]
  /\ UNCHANGED outsidePage

\* the indexes of result.metrics.stronglyConnectedComponents.map(...), when the
\* component cards are rendered
componentIndexes ==
  IF page.loading \/ page.analyzing \/ page.result.type = "null" THEN {}
  ELSE 0..(Len(page.result.value) - 1)

\* a click on 'All Cycles' of component componentIndex: handleFindCycles up to the await
handleFindCycles(componentIndex) ==
  /\ componentIndex \in componentIndexes
  /\ ~(page.loadingCycles /\ page.selectedComponent = JsValue("number", componentIndex))
  /\ page.clicks < MaxClicks
  /\ page' = [page EXCEPT
                !.loadingCycles = TRUE,
                !.selectedComponent = JsValue("number", componentIndex),
                !.pending = Append(@, [api |-> "findCycles",
                                       componentNodes |-> page.result.value[componentIndex + 1]]),
                !.clicks = @ + 1]
  /\ UNCHANGED outsidePage

\* handleFindCycles after the await: the response of call k has arrived
FindCyclesResolves(k) ==
  /\ k \in 1..Len(page.pending) /\ page.pending[k].api = "findCycles"
  /\ page' = [page EXCEPT
                !.cycles = findCyclesResponse(page.pending[k].componentNodes),
                !.loadingCycles = FALSE,
                !.pending = RemoveAt(@, k)]
  /\ UNCHANGED outsidePage

\* handleFindCycles after the await: call k has failed
FindCyclesRejects(k) ==
  /\ k \in 1..Len(page.pending) /\ page.pending[k].api = "findCycles"
  /\ page' = [page EXCEPT !.loadingCycles = FALSE, !.pending = RemoveAt(@, k)]
  /\ UNCHANGED outsidePage

\* a click on 'Tiny Cycles' of component componentIndex: handleDetectTinyCycles up to the
\* await
handleDetectTinyCycles(componentIndex) ==
  /\ componentIndex \in componentIndexes
  /\ ~(page.loadingTinyCycles /\ page.selectedComponent = JsValue("number", componentIndex))
  /\ page.clicks < MaxClicks
  /\ page' = [page EXCEPT
                !.loadingTinyCycles = TRUE,
                !.selectedComponent = JsValue("number", componentIndex),
                !.pending = Append(@, [api |-> "detectTinyCycles",
                                       componentNodes |-> page.result.value[componentIndex + 1]]),
                !.clicks = @ + 1]
  /\ UNCHANGED outsidePage

\* handleDetectTinyCycles after the await: the response of call k has arrived
DetectTinyCyclesResolves(k) ==
  /\ k \in 1..Len(page.pending) /\ page.pending[k].api = "detectTinyCycles"
  /\ page' = [page EXCEPT
                !.tinyCycles = detectTinyCyclesResponse(page.pending[k].componentNodes),
                !.loadingTinyCycles = FALSE,
                !.pending = RemoveAt(@, k)]
  /\ UNCHANGED outsidePage

\* handleDetectTinyCycles after the await: call k has failed
DetectTinyCyclesRejects(k) ==
  /\ k \in 1..Len(page.pending) /\ page.pending[k].api = "detectTinyCycles"
  /\ page' = [page EXCEPT !.loadingTinyCycles = FALSE, !.pending = RemoveAt(@, k)]
  /\ UNCHANGED outsidePage

\* the list of elementary cycles is rendered in the card of component componentIndex
showsCycles(componentIndex) ==
  page.selectedComponent = JsValue("number", componentIndex) /\ Len(page.cycles) > 0

\* the list of tiny cycles is rendered in the card of component componentIndex
showsTinyCycles(componentIndex) ==
  page.selectedComponent = JsValue("number", componentIndex) /\ Len(page.tinyCycles) > 0

NextPage ==
  \/ LoadResultsResolves
  \/ LoadResultsRejects
  \/ \E componentIndex \in 0..1 : handleFindCycles(componentIndex)
  \/ \E componentIndex \in 0..1 : handleDetectTinyCycles(componentIndex)
  \/ \E k \in 1..MaxClicks : FindCyclesResolves(k)
  \/ \E k \in 1..MaxClicks : FindCyclesRejects(k)
  \/ \E k \in 1..MaxClicks : DetectTinyCyclesResolves(k)
  \/ \E k \in 1..MaxClicks : DetectTinyCyclesRejects(k)

SpecPage == InitPage /\ [][NextPage]_vars

(* ----------------------- claims on SCC detection ---------------------- *)
EdgePairs(g) == {<<g.edges[i].source, g.edges[i].target>> : i \in 1..Len(g.edges)}

\* every id the graph mentions, as a node or as an endpoint of an edge
AllIds(g) ==
  Range(g.nodes) \cup {e[1] : e \in EdgePairs(g)} \cup {e[2] : e \in EdgePairs(g)}

\* what is reached from the set S over the edges E whose both endpoints are in V
RECURSIVE ReachFrom(_, _, _)
ReachFrom(S, E, V) ==
  LET S1 == S \cup {e[2] : e \in {d \in E : d[1] \in S /\ d[1] \in V /\ d[2] \in V}}
  IN IF S1 = S THEN S ELSE ReachFrom(S1, E, V)

\* for each a of V, what is reached from a by a path of at least one edge of E
\* inside V
ReachMap(E, V) ==
  [a \in V |-> ReachFrom({e[2] : e \in {d \in E : d[1] = a /\ d[2] \in V}}, E, V)]

\* every two different nodes of V reach each other inside V
StronglyConnected(E, V) ==
  LET R == ReachMap(E, V) IN \A a, b \in V : a # b => b \in R[a]

NoRepeat(s) == \A i, j \in 1..Len(s) : i # j => s[i] # s[j]

InComponent(a, comps) == \E i \in 1..Len(comps) : a \in Range(comps[i])

SameComponent(a, b, comps) == \E i \in 1..Len(comps) : {a, b} \subseteq Range(comps[i])

\* C1: the components returned by findStronglyConnectedComponents are pairwise
\* disjoint, no component lists a node id twice, and inside each component every
\* node is reachable from every other node using only edges whose both endpoints
\* are in that component.
C1_SccDisjointAndConnected ==
  pc = "scc" =>
    /\ \A i, j \in 1..Len(sccRet) :
         i # j => Range(sccRet[i]) \cap Range(sccRet[j]) = {}
    /\ \A i \in 1..Len(sccRet) :
         /\ NoRepeat(sccRet[i])
         /\ StronglyConnected(EdgePairs(graphData), Range(sccRet[i]))

\* two components are returned, and an edge leads from one into the other
C1_Witness ==
  /\ pc = "scc"
  /\ Len(sccRet) >= 2
  /\ \E e \in EdgePairs(graphData) :
       e[1] \in Range(sccRet[2]) /\ e[2] \in Range(sccRet[1])

C3_NoSingletonComponent ==
  LET V == AllIds(graphData)
      R == ReachMap(EdgePairs(graphData), V)
      alone(a) == \A b \in V : b # a => ~(b \in R[a] /\ a \in R[b])
      holds(comps) ==
        /\ \A i \in 1..Len(comps) : Cardinality(Range(comps[i])) >= 2
        /\ \A a \in Range(graphData.nodes) : alone(a) => ~InComponent(a, comps)
  IN /\ pc = "scc" => holds(sccRet)
     /\ pc = "metrics" => holds(metricsRet.stronglyConnectedComponents)

\* a node with a self-loop was popped as a component of its own and is not returned
C3_Witness ==
  /\ pc = "scc"
  /\ \E a \in Range(graphData.nodes) :
       /\ <<a, a>> \in EdgePairs(graphData)
       /\ \E i \in 1..Len(sccs) : sccs[i] = <<a>>
       /\ ~InComponent(a, sccRet)

\* the graph without the edges whose source or target is the id of no node
WithoutDanglingEdges(g) ==
  LET bothNodes(e) == e.source \in Range(g.nodes) /\ e.target \in Range(g.nodes)
  IN [nodes |-> g.nodes, edges |-> SelectSeq(g.edges, bothNodes)]

\* C4: an edge whose source or target is not the id of a node of graph.nodes is
\* ignored by SCC detection: the components returned are those returned for the
\* graph with all such edges removed, and no returned component holds an id that
\* is absent from graph.nodes.
C4_DanglingEdgesIgnored ==
  pc = "scc" =>
    /\ sccRet = sccResult(sccRun(WithoutDanglingEdges(graphData)))
    /\ \A i \in 1..Len(sccRet) : Range(sccRet[i]) \subseteq Range(graphData.nodes)

(* ------------ cycle enumeration and tiny-cycle detection -------------- *)
InitCycles ==
  /\ \E inp \in CycleInputs :
       graphData = inp.graphData /\ componentNodes = inp.componentNodes
  /\ InitAnalyzer

SpecCycles == InitCycles /\ [][FindElementaryCycles]_vars

SpecTiny == InitCycles /\ [][DetectTinyCycles]_vars

(* -------------------- claims on cycle enumeration -------------------- *)
\* b is the sequence a started at another position
IsRotation(a, b) ==
  /\ Len(a) = Len(b)
  /\ \/ Len(a) = 0
     \/ \E r \in 0..(Len(a) - 1) :
          \A k \in 1..Len(a) : b[k] = a[((k - 1 + r) % Len(a)) + 1]

\* the node sequence s is a closed walk over the edges E
ClosedWalk(s, E) ==
  \A k \in 1..Len(s) : <<s[k], s[(k % Len(s)) + 1]>> \in E

\* C5: every entry returned by findElementaryCycles is an elementary cycle of the
\* component: its nodes are pairwise distinct members of componentNodes, each
\* node has an edge to the next one and the last has an edge to the first, its
\* length field is the number of its nodes, and that number is at least 2.
C5_CyclesAreElementary ==
  pc = "cycles" =>
    \A k \in 1..Len(cyclesRet) :
      LET c == cyclesRet[k]
      IN /\ NoRepeat(c.nodes)
         /\ Range(c.nodes) \subseteq Range(componentNodes)
         /\ ClosedWalk(c.nodes, EdgePairs(graphData))
         /\ c.length = Len(c.nodes)
         /\ Len(c.nodes) >= 2

\* a cycle is returned for a component one of whose nodes has a self-loop
C5_Witness ==
  /\ pc = "cycles"
  /\ Len(cyclesRet) >= 1
  /\ \E a \in Range(componentNodes) :
       <<a, a>> \in EdgePairs(graphData) /\ a \in Range(cyclesRet[1].nodes)

\* C6: findElementaryCycles never returns two entries whose node sequences are
\* cyclic rotations of each other, two equal sequences included.
C6_NoRotatedDuplicates ==
  pc = "cycles" =>
    \A i, j \in 1..Len(cyclesRet) :
      i # j => ~IsRotation(cyclesRet[i].nodes, cyclesRet[j].nodes)

\* the search found a sequence twice through parallel edges and found a rotation
\* of it from another start node
C6_Witness ==
  /\ pc = "cycles"
  /\ \E i, j, k \in 1..Len(cycles) :
       /\ i # j
       /\ cycles[i].nodes = cycles[j].nodes
       /\ cycles[k].nodes # cycles[i].nodes
       /\ IsRotation(cycles[i].nodes, cycles[k].nodes)

\* the place in the array cycles at which the cycle c was first found
FirstFound(c) ==
  CHOOSE k \in 1..Len(cycles) :
    /\ IsRotation(cycles[k].nodes, c.nodes)
    /\ \A m \in 1..(k - 1) : ~IsRotation(cycles[m].nodes, c.nodes)

\* C7: the list returned by findElementaryCycles is in non-decreasing order of
\* length, and two cycles of equal length appear in the order in which the
\* search first found them.
C7_SortedByLengthStable ==
  pc = "cycles" =>
    \A i, j \in 1..Len(cyclesRet) :
      i < j =>
        /\ cyclesRet[i].length <= cyclesRet[j].length
        /\ cyclesRet[i].length = cyclesRet[j].length
             => FirstFound(cyclesRet[i]) < FirstFound(cyclesRet[j])

\* a longer cycle was found before a shorter one, and two cycles of one length
\* are returned
C7_Witness ==
  /\ pc = "cycles"
  /\ \E i, j \in 1..Len(cycles) : i < j /\ cycles[i].length > cycles[j].length
  /\ \E i, j \in 1..Len(cyclesRet) : i # j /\ cyclesRet[i].length = cyclesRet[j].length

\* C8: the 100-cycle cap is hard: the search records no further cycle once 100
\* have been found, so the returned list never has more than 100 entries.
C8_CapIsHard ==
  pc = "cycles" => Len(cyclesRet) <= MaxCycles

\* the elementary cycles of length at least 2 of the subgraph induced by the
\* node set V, each as the sequence that starts at its smallest node
ElementaryCycles(E, V) ==
  {s \in UNION {[1..n -> V] : n \in 2..Cardinality(V)} :
     /\ NoRepeat(s)
     /\ \A k \in 2..Len(s) : s[1] < s[k]
     /\ ClosedWalk(s, E)}

\* C9: findElementaryCycles finds all elementary cycles of the component: when the
\* subgraph induced by componentNodes has fewer than 100 distinct elementary
\* cycles of length at least 2, every one of them is returned, exactly once up
\* to rotation.
C9_AllCyclesFound ==
  pc = "cycles" =>
    LET all == ElementaryCycles(EdgePairs(graphData), Range(componentNodes))
    IN Cardinality(all) < MaxCycles =>
         \A s \in all :
           Cardinality({k \in 1..Len(cyclesRet) : IsRotation(cyclesRet[k].nodes, s)}) = 1

(* ------------------- claims on tiny-cycle detection ------------------- *)
PairReturned(a, b) ==
  \E k \in 1..Len(tinyRet) :
     \/ tinyRet[k].node1 = a /\ tinyRet[k].node2 = b
     \/ tinyRet[k].node1 = b /\ tinyRet[k].node2 = a

\* C10: detectTinyCycles returns the unordered pair (A,B) of two nodes if and
\* only if A and B are both members of componentNodes and the graph has an
\* edge A->B and an edge B->A, for every order of the nodes and edges of the input.
C10_TinyCyclesExactlyReciprocalPairs ==
  pc = "tiny" =>
    \A a, b \in AllIds(graphData) \cup Range(componentNodes) :
      a # b =>
        (PairReturned(a, b) <=>
           /\ a \in Range(componentNodes)
           /\ b \in Range(componentNodes)
           /\ <<a, b>> \in EdgePairs(graphData)
           /\ <<b, a>> \in EdgePairs(graphData))

\* a pair is returned that does not hold the first node of componentNodes, and
\* of two returned pairs one was recorded at its larger and one at its smaller node
C10_Witness ==
  /\ pc = "tiny"
  /\ \E k \in 1..Len(tinyRet) :
       tinyRet[k].node1 # componentNodes[1] /\ tinyRet[k].node2 # componentNodes[1]
  /\ \E k \in 1..Len(tinyRet) : tinyRet[k].node1 < tinyRet[k].node2
  /\ \E k \in 1..Len(tinyRet) : tinyRet[k].node1 > tinyRet[k].node2

\* C11: every pair returned by detectTinyCycles is a 2-node cycle: node1 and
\* node2 are two different nodes, also when a node of the component has a
\* self-loop.
C11_TinyPairsAreTwoNodes ==
  pc = "tiny" => \A k \in 1..Len(tinyRet) : tinyRet[k].node1 # tinyRet[k].node2

(* ------------------------- claims on the metrics ---------------------- *)
\* the number of edges of g from a to b
EdgesBetween(g, a, b) ==
  Cardinality({i \in 1..Len(g.edges) : g.edges[i].source = a /\ g.edges[i].target = b})

\* C12: calculateMetrics sets multiEdges to the sum, over every ordered
\* (source,target) pair that has k > 1 edges, of k-1, that is edgeCount minus the
\* number of distinct ordered pairs: a graph with at most one edge per ordered
\* pair has multiEdges = 0 and edges A->B and B->A are not counted as parallel.
C12_MultiEdgesCountsParallelEdges ==
  pc = "metrics" =>
    /\ metricsRet.multiEdges = Len(graphData.edges) - Cardinality(EdgePairs(graphData))
    /\ (\A p \in EdgePairs(graphData) : EdgesBetween(graphData, p[1], p[2]) = 1)
         => metricsRet.multiEdges = 0

C14_DegreesCountEdges ==
  pc = "metrics" =>
    \A n \in Range(graphData.nodes) :
      /\ Has(metricsRet.outDegrees, n)
      /\ Has(metricsRet.inDegrees, n)
      /\ metricsRet.outDegrees[n] =
           Cardinality({i \in 1..Len(graphData.edges) : graphData.edges[i].source = n})
      /\ metricsRet.inDegrees[n] =
           Cardinality({i \in 1..Len(graphData.edges) : graphData.edges[i].target = n})

\* one node has a self-loop and parallel edges into it, another node has no edge
C14_Witness ==
  /\ pc = "metrics"
  /\ \E n, m, k \in Range(graphData.nodes) :
       /\ m # n
       /\ EdgesBetween(graphData, n, n) >= 1
       /\ EdgesBetween(graphData, m, n) >= 2
       /\ metricsRet.inDegrees[n] >= 3
       /\ metricsRet.inDegrees[k] = 0
       /\ metricsRet.outDegrees[k] = 0

\* inDegree + outDegree of node n: the edge ends at n
TotalDegree(g, n) ==
  Cardinality({i \in 1..Len(g.edges) : g.edges[i].source = n})
    + Cardinality({i \in 1..Len(g.edges) : g.edges[i].target = n})

\* the edge ends at the nodes of g.nodes
NodeEdgeEnds(g) ==
  Cardinality({i \in 1..Len(g.edges) : g.edges[i].source \in Range(g.nodes)})
    + Cardinality({i \in 1..Len(g.edges) : g.edges[i].target \in Range(g.nodes)})

\* C15: calculateMetrics returns maxDegree equal to the maximum over the nodes of
\* graph.nodes of inDegree + outDegree and avgDegree equal to the mean of
\* inDegree + outDegree over those nodes; both are 0 when the graph has no
\* nodes, also when it still has edges.
C15_MaxAndAvgDegree ==
  pc = "metrics" =>
    LET V == Range(graphData.nodes)
    IN /\ V = {} => metricsRet.maxDegree = 0 /\ metricsRet.avgDegree = Zero
       /\ V # {} =>
            /\ \E n \in V : metricsRet.maxDegree = TotalDegree(graphData, n)
            /\ \A n \in V : metricsRet.maxDegree >= TotalDegree(graphData, n)
            /\ metricsRet.avgDegree = Quotient(NodeEdgeEnds(graphData), Cardinality(V))

\* the node of the largest degree is not the last of graph.nodes, the mean is not
\* a whole number, and an edge has an endpoint that is no node
C15_Witness ==
  /\ pc = "metrics"
  /\ Len(graphData.nodes) >= 2
  /\ TotalDegree(graphData, graphData.nodes[Len(graphData.nodes)]) < metricsRet.maxDegree
  /\ metricsRet.avgDegree.num % metricsRet.avgDegree.den # 0
  /\ \E i \in 1..Len(graphData.edges) : graphData.edges[i].target \notin Range(graphData.nodes)

C17_InterleavedCallsDoNotContaminate ==
  \A c \in DOMAIN calls :
    calls[c].at = "done" =>
      LET alone == sccResult(sccRun(calls[c].graphData))
      IN {Range(calls[c].ret[k]) : k \in 1..Len(calls[c].ret)}
           = {Range(alone[k]) : k \in 1..Len(alone)}

\* a quotient that is a number: the divisor is not 0
IsNumber(q) == q.den # 0

EngineRoutes == {"analyze", "find-cycles", "detect-tiny-cycles"}

\* C19: a find-cycles or detect-tiny-cycles request whose componentNodes is
\* absent or not an array is answered with a 400 validation error before anything
\* else happens: the engine is not invoked and storage is not queried, whether or
\* not the graph id exists.
C19_InvalidComponentNodesIs400 ==
  \A k \in 1..Len(reqs) :
    (/\ reqs[k].route \in {"find-cycles", "detect-tiny-cycles"}
     /\ reqs[k].componentNodes.type # "array"
     /\ reqs[k].at # "received")
      => /\ reqs[k].at = "responded"
         /\ reqs[k].status = 400
         /\ ~reqs[k].queried
         /\ reqs[k].engine = 0

\* two requests without a componentNodes array have been answered, one for a
\* stored graph id and one for a graph id that is not stored
C19_Witness ==
  \E i, j \in 1..Len(reqs) :
    /\ reqs[i].route = "find-cycles" /\ reqs[j].route = "detect-tiny-cycles"
    /\ reqs[i].componentNodes.type = "undefined" /\ reqs[j].componentNodes.type = "string"
    /\ reqs[i].status = 400 /\ reqs[j].status = 400
    /\ reqs[i].present /\ ~reqs[j].present

\* C20, as stated: when the requested graph id is absent from storage, analyze,
\* find-cycles and detect-tiny-cycles answer with a 404 not-found error and the
\* engine is never invoked for that request; this also holds for an id whose
\* graph was deleted earlier.
C20_AbsentGraphIs404 ==
  \A k \in 1..Len(reqs) :
    (/\ reqs[k].route \in EngineRoutes
     /\ reqs[k].at = "responded"
     /\ ~reqs[k].present)
      => reqs[k].status = 404 /\ reqs[k].engine = 0

\* C20, amended: when the requested graph id is absent from storage, the engine
\* is never invoked for the request, and the request is answered 404 if the query
\* of the storage succeeds; a find-cycles or detect-tiny-cycles request without a
\* componentNodes array is answered 400 before storage is queried.
C20_AbsentGraphIs404AfterValidation ==
  \A k \in 1..Len(reqs) :
    (reqs[k].route \in EngineRoutes /\ reqs[k].at # "received" /\ ~reqs[k].present)
      => /\ reqs[k].engine = 0
         /\ reqs[k].at = "responded" =>
              reqs[k].status =
                IF reqs[k].route # "analyze" /\ reqs[k].componentNodes.type # "array"
                THEN 400
                ELSE IF reqs[k].threw THEN 500 ELSE 404

\* a graph was deleted, and a later request for its id is answered 404
C20_Witness ==
  \E i, j \in 1..Len(reqs) :
    /\ reqs[i].route = "delete" /\ reqs[i].status = 200
    /\ reqs[j].route \in EngineRoutes /\ reqs[j].id = reqs[i].id
    /\ ~reqs[j].present /\ reqs[j].status = 404 /\ reqs[j].engine = 0

(* --------------------- claims on buildAdjacencyList ------------------- *)
\* the targets of the edges of g whose source is n, in the order of g.edges
TargetsOf(g, n) ==
  LET fromN(e) == e.source = n
      out == SelectSeq(g.edges, fromN)
  IN [k \in 1..Len(out) |-> out[k].target]

\* C23: buildAdjacencyList maps every node id of graph.nodes to the sequence of
\* the targets of the edges whose source is that node, in the order of
\* graph.edges and with one entry per edge (k parallel edges give k equal
\* entries, a self-loop gives the node itself); a node with no outgoing edge maps
\* to the empty sequence.
C23_AdjacencyListsTargetsInOrder ==
  pc = "scc" =>
    LET adj == buildAdjacencyList(graphData)
    IN \A n \in Range(graphData.nodes) : Has(adj, n) /\ adj[n] = TargetsOf(graphData, n)

\* the list was built for a graph in which one node has a self-loop and two
\* parallel edges, listed after the self-loop, and another node has no outgoing edge
C23_Witness ==
  /\ pc = "scc"
  /\ \E a, b \in Range(graphData.nodes) :
       /\ a # b
       /\ buildAdjacencyList(graphData)[a] = <<a, b, b>>
       /\ buildAdjacencyList(graphData)[b] = <<>>

\* C24: the keys of the map built by buildAdjacencyList are exactly the ids of
\* graph.nodes: an edge whose source is not the id of a node adds no key to the map.
C24_KeysAreTheNodes ==
  pc = "scc" => DOMAIN buildAdjacencyList(graphData) = Range(graphData.nodes)

(* ---------------------- claims on the order of the components --------- *)
\* C25: findStronglyConnectedComponents lists components in the order their
\* roots are popped from the traversal stack, which is reverse topological order
\* of the condensation: the returned list is the list sccs of popped components
\* without those of one node, and whenever a node of reported component Y is
\* reachable from a node of a different reported component X, Y appears before X
\* in the returned list.
C25_ReverseTopologicalOrder ==
  pc = "scc" =>
    /\ sccRet = SelectSeq(sccs, LAMBDA scc : Len(scc) >= 2)
    /\ LET R == ReachMap(EdgePairs(graphData), AllIds(graphData))
       IN \A x, y \in 1..Len(sccRet) :
            (x # y /\ \E a \in Range(sccRet[x]), b \in Range(sccRet[y]) : b \in R[a])
              => y < x

\* two components are returned, the traversal started in the one listed last, and
\* it reaches the one listed first
C25_Witness ==
  /\ pc = "scc"
  /\ Len(sccRet) = 2
  /\ graphData.nodes[1] \in Range(sccRet[2])
  /\ LET R == ReachMap(EdgePairs(graphData), AllIds(graphData))
     IN \E a \in Range(sccRet[2]), b \in Range(sccRet[1]) : b \in R[a]

(* ----------------------- claims on repeated tiny cycles --------------- *)
\* C26: detectTinyCycles never returns the same unordered pair twice: no two
\* entries have the same two nodes in the same or in swapped order, also when the
\* reciprocal edges are parallel (several A->B or several B->A edges) or
\* componentNodes lists a node more than once.
C26_NoPairTwice ==
  pc = "tiny" =>
    \A i, j \in 1..Len(tinyRet) :
      i # j => {tinyRet[i].node1, tinyRet[i].node2} # {tinyRet[j].node1, tinyRet[j].node2}

\* a pair of two nodes was returned, and the edge on which the pair was found is
\* listed twice in graph.edges
C26_Witness ==
  /\ pc = "tiny"
  /\ \E k \in 1..Len(tinyRet) :
       /\ tinyRet[k].node1 # tinyRet[k].node2
       /\ \E i, j \in 1..Len(graphData.edges) :
            /\ i # j
            /\ graphData.edges[i] = [source |-> tinyRet[k].node1, target |-> tinyRet[k].node2]
            /\ graphData.edges[j] = graphData.edges[i]

(* ---------------------- claims on calls one after another ------------- *)
\* the fields of a GraphAnalyzer that has made no call
NewAnalyzer == Fields(0, <<>>, EmptyMap, EmptyMap, {}, <<>>)

\* the components findStronglyConnectedComponents(g) returns on a new GraphAnalyzer
OnNewAnalyzer(g) == sccResult(sccLoop(NewAnalyzer, g.nodes, buildAdjacencyList(g), 1))

\* C27: the engine holds no state between calls: for any sequence of earlier
\* calls made on the same GraphAnalyzer instance (run one after another, on any
\* graphs), findStronglyConnectedComponents(g) and calculateMetrics(g) return the
\* same result as on a fresh instance.
C27_NoStateBetweenCalls ==
  /\ pc = "scc" => sccRet = OnNewAnalyzer(graphData)
  /\ pc = "metrics" => metricsRet = calculateMetrics(graphData, OnNewAnalyzer(graphData))

\* findStronglyConnectedComponents has returned no component for a graph with
\* edges, on an analyzer whose earlier call found a component
C27_Witness ==
  /\ pc = "scc"
  /\ Len(calls) = 1
  /\ calls[1].ret # <<>>
  /\ graphData.edges # <<>>
  /\ sccRet = <<>>

(* ------------------ claims on the two detectors together -------------- *)
\* the unordered pairs of the entries of a detectTinyCycles result
TinyPairs(tiny) == {{tiny[i].node1, tiny[i].node2} : i \in 1..Len(tiny)}

\* the node pairs of the length-2 entries of a findElementaryCycles result
Length2Pairs(cs) == {Range(cs[i].nodes) : i \in {k \in 1..Len(cs) : cs[k].length = 2}}

\* no node of componentNodes has an edge to itself
NoSelfLoops(g, compNodes) == \A a \in Range(compNodes) : <<a, a>> \notin EdgePairs(g)

\* C28: the two detectors agree on 2-node cycles: for a component without
\* self-loops on which cycle enumeration stays below the 100-cycle cap, the set
\* of unordered pairs returned by detectTinyCycles equals the set of node pairs
\* of the length-2 cycles returned by findElementaryCycles for the same graph and
\* componentNodes.
C28_DetectorsAgreeOnTwoCycles ==
  /\ (pc = "cycles" /\ NoSelfLoops(graphData, componentNodes) /\ Len(cycles) < MaxCycles)
       => Length2Pairs(cyclesRet) = TinyPairs(detectTinyCycles(graphData, componentNodes))
  /\ (pc = "tiny" /\ NoSelfLoops(graphData, componentNodes))
       => LET found == searchCycles(graphData, componentNodes)
          IN Len(found) < MaxCycles
               => TinyPairs(tinyRet) = Length2Pairs(findElementaryCycles(found))

(* ------------------- claims on faults, storage and sessions ----------- *)
\* C21: a fault raised inside an engine operation propagates to the caller
\* uncaught: the operation yields no partial metrics/cycles/tiny-cycles result,
\* and the request that triggered it ends in an error response, never in a
\* success response carrying a partial result.
C21_EngineFaultIsErrorResponse ==
  \A k \in 1..Len(reqs) :
    (/\ reqs[k].route \in EngineRoutes
     /\ reqs[k].at = "responded"
     /\ reqs[k].engine > 0
     /\ engineThrows(reqs[k].records[1].json))
      => /\ reqs[k].status = 500
         /\ DOMAIN reqs[k].body = {"error"}

\* a document without nodes was stored by a PUT, and an analyze request for it
\* has called the engine and has its response
C21_Witness ==
  \E i, j \in 1..Len(reqs) :
    /\ reqs[i].route = "put" /\ reqs[i].status = 200 /\ reqs[i].data.value = NoNodesData
    /\ reqs[j].route = "analyze" /\ reqs[j].id = reqs[i].id
    /\ reqs[j].at = "responded" /\ reqs[j].engine = 1 /\ ~reqs[j].threw
    /\ reqs[j].status = 500

\* the documents that POST / or a PUT with a 200 response have stored under id
StoredDocs(id) ==
  {EmptyData} \cup
    {reqs[j].data.value : j \in {i \in 1..Len(reqs) :
        /\ reqs[i].route = "put" /\ reqs[i].id = id
        /\ reqs[i].at \in {"queried", "responded"}
        /\ ~reqs[i].threw /\ reqs[i].records # <<>>}}

\* C22: analysis never mutates or persists graph state: no step of an analyze,
\* find-cycles or detect-tiny-cycles request changes the stored document of any
\* graph, the document such a request reads is the one stored at that moment,
\* and the graphData returned by analyze is the document that the request read,
\* which is one stored by a successful update (or by the creation) of that graph.
C22_AnalysisLeavesStorageAlone ==
  /\ [](\A k \in 1..Len(reqs) :
          (reqs[k].route = "analyze" /\ reqs[k].status = 200)
            => /\ JSONstringify(reqs[k].body.graphData) = reqs[k].records[1]
               /\ reqs[k].body.graphData \in StoredDocs(reqs[k].id))
  /\ [][\A k \in 1..Len(reqs) :
          (reqs[k].route \in EngineRoutes /\ reqs'[k] # reqs[k])
            => /\ db' = db
               /\ (reqs'[k].at = "queried" /\ reqs'[k].records # <<>>)
                    => reqs'[k].records = <<db[reqs[k].id]>>]_vars

\* a PUT has stored a graph and an analyze request has returned that graph
C22_Witness ==
  \E i, j \in 1..Len(reqs) :
    /\ reqs[i].route = "put" /\ reqs[i].status = 200 /\ reqs[i].data.value = CyclicData
    /\ reqs[j].route = "analyze" /\ reqs[j].id = reqs[i].id /\ reqs[j].status = 200
    /\ reqs[j].body.graphData = CyclicData
    /\ db[reqs[j].id] = JSONstringify(CyclicData)

\* C29: every REST handler that opens a database session closes it exactly once
\* before the request ends, on every path: success, 404 not found returned from
\* inside the try block, and 500 after a storage or engine error; a request
\* rejected with 400 opens no session.
C29_SessionClosedOnce ==
  \A k \in 1..Len(reqs) :
    /\ reqs[k].at = "received" => reqs[k].opened = 0 /\ reqs[k].closed = 0
    /\ reqs[k].at = "queried" => reqs[k].opened = 1 /\ reqs[k].closed = 0
    /\ reqs[k].at = "responded" =>
         IF reqs[k].status = 400
         THEN reqs[k].opened = 0 /\ reqs[k].closed = 0
         ELSE reqs[k].opened = 1 /\ reqs[k].closed = 1

\* a request answered 404 and a request answered 500 after a storage error have
\* both opened one session and closed it
C29_Witness ==
  \E i, j \in 1..Len(reqs) :
    /\ reqs[i].status = 404 /\ reqs[i].opened = 1 /\ reqs[i].closed = 1
    /\ reqs[j].status = 500 /\ reqs[j].threw /\ reqs[j].opened = 1 /\ reqs[j].closed = 1

(* ------------------- claim on the results page ------------------------ *)
\* C30: on the results page, whenever a list of cycles or of tiny cycles is
\* displayed under component i, that list is the response to a request made for
\* component i, after any sequence of 'Tiny Cycles' and 'All Cycles' clicks on
\* different components and for any order in which the responses arrive.
C30_DisplayedListIsOfItsComponent ==
  \A componentIndex \in componentIndexes :
    /\ showsCycles(componentIndex)
         => page.cycles = findCyclesResponse(page.result.value[componentIndex + 1])
    /\ showsTinyCycles(componentIndex)
         => page.tinyCycles = detectTinyCyclesResponse(page.result.value[componentIndex + 1])

====
